---- MODULE Spec2Model ----
(***************************************************************************)
(* Model of the session controller of youtube_and_webpage_chat             *)
(* (src/src/app/controller.py, class ContentController) together with the  *)
(* ambient state it reads and writes: the .env file and os.environ, of the  *)
(* second writer of that file (src/src/services/llm_factory.py) and of the *)
(* command loop that drives the controller (src/src/main.py, ChatCLI).     *)
(*                                                                         *)
(* Python strings that the code takes apart (URLs, user input, the         *)
(* transcript) are sequences of tokens; "" is the empty sequence.  Model   *)
(* names are only compared and tested for truthiness, so they are TLA+     *)
(* strings with "" for the unset value.  An Optional[str] is None (<<>>)   *)
(* or Some(x) (<<x>>).                                                     *)
(***************************************************************************)
EXTENDS Integers, Sequences, FiniteSets, TLC

VARIABLES llm_client, fetcher, available_models, current_model, transcript,
          messages, source_type, loaded_url, env_file, os_environ, last,
          loaded_seed, dotenv_exists, home_env_file, lastcmd, stop, cli

vars == <<llm_client, fetcher, available_models, current_model, transcript,
          messages, source_type, loaded_url, env_file, os_environ, last,
          loaded_seed, dotenv_exists, home_env_file, lastcmd, stop, cli>>

\* ------------------------------------------------------------------ bounds
\* ask and summarize are not started once the history has this many messages.
MaxMessages == 4

\* ------------------------------------------------------------ small helpers
None == <<>>

Some(x) == <<x>>

Contains(s, x) == \E i \in 1..Len(s) : s[i] = x

\* index of the first occurrence of x in s, 0 when there is none
RECURSIVE FirstIndexFrom(_, _, _)
FirstIndexFrom(s, x, i) ==
  IF i > Len(s) THEN 0
  ELSE IF s[i] = x THEN i
  ELSE FirstIndexFrom(s, x, i + 1)

FirstIndex(s, x) == FirstIndexFrom(s, x, 1)

\* index of the last occurrence of x in s, 0 when there is none
RECURSIVE LastIndexFrom(_, _, _)
LastIndexFrom(s, x, i) ==
  IF i < 1 THEN 0
  ELSE IF s[i] = x THEN i
  ELSE LastIndexFrom(s, x, i - 1)

LastIndex(s, x) == LastIndexFrom(s, x, Len(s))

\* str.split(sep)[0]: everything before the first sep (all of s without one)
SplitFirst(s, sep) ==
  IF FirstIndex(s, sep) = 0 THEN s ELSE SubSeq(s, 1, FirstIndex(s, sep) - 1)

\* str.split(sep)[1] for an s that contains sep: the part between the first
\* sep and the next one
SplitSecond(s, sep) ==
  SplitFirst(SubSeq(s, FirstIndex(s, sep) + 1, Len(s)), sep)

\* str.split(sep)[-1]: everything after the last sep
SplitLast(s, sep) == SubSeq(s, LastIndex(s, sep) + 1, Len(s))

\* str.rstrip(ch)
RECURSIVE RStrip(_, _)
RStrip(s, ch) ==
  IF s # <<>> /\ s[Len(s)] = ch THEN RStrip(SubSeq(s, 1, Len(s) - 1), ch)
  ELSE s

\* str.strip(): whitespace removed at both ends
RECURSIVE LStripSpace(_)
LStripSpace(s) ==
  IF s # <<>> /\ s[1] = " " THEN LStripSpace(Tail(s)) ELSE s

\* a strip that removes nothing
StripNothing(s) == s

Strip(s) == LStripSpace(RStrip(s, " "))

\* --------------------------------------------------------- the environment
EmptyEnviron == [k \in {} |-> ""]

EnvLine(key, value) == [key |-> key, value |-> value]

\* python-dotenv's reading of the file: a later line for a key wins
DotenvValue(file, key) ==
  file[LastIndex([i \in 1..Len(file) |-> file[i].key], key)].value

DotenvKeys(file) == {file[i].key : i \in 1..Len(file)}

\* load_dotenv() without override: keys already in os.environ are kept
load_dotenv(environ, file) ==
  [k \in (DOMAIN environ) \cup DotenvKeys(file) |->
     IF k \in DOMAIN environ THEN environ[k] ELSE DotenvValue(file, k)]

\* os.getenv(key, default)
getenv(environ, key, default) ==
  IF key \in DOMAIN environ THEN environ[key] ELSE default

\* ContentController._save_env_var: the first line starting with "key=" is
\* replaced, a missing key is appended; os.environ is not touched
_save_env_var(file, key, value) ==
  LET keys == [i \in 1..Len(file) |-> file[i].key]
      i == FirstIndex(keys, key)
  IN IF i # 0 THEN [file EXCEPT ![i] = EnvLine(key, value)]
     ELSE Append(file, EnvLine(key, value))

\* ------------------------------------------------------------ collaborators
Backends == {"ollama", "openrouter"}

\* the content source that main() injects
Fetchers == {"ContentFetcher"}

ListFailure == [ok |-> FALSE, models |-> <<>>]

ListOk(models) == [ok |-> TRUE, models |-> models]

\* what list_models() of a backend can do: raise, or return a catalog
ListResults(client) ==
  IF client = "openrouter"
  THEN {ListFailure, ListOk(<<"openrouter/free">>)}
  ELSE {ListFailure, ListOk(<<>>), ListOk(<<"m1", "m2">>)}

Message(role, content) == [role |-> role, content |-> content]

Content(tmpl, url, text) == [tmpl |-> tmpl, url |-> url, text |-> text]

ChatFailure == [ok |-> FALSE, message |-> Message("assistant", Content("raw", None, <<>>))]

ChatOk(text) == [ok |-> TRUE, message |-> Message("assistant", Content("raw", None, text))]

\* what chat() of a backend can do: raise, or return {"message": ...}
ChatResults == {ChatFailure, ChatOk(<<"reply">>)}

FetchFailure == [ok |-> FALSE, text |-> <<>>]

FetchOk(text) == [ok |-> TRUE, text |-> text]

\* ContentFetcher.fetch_youtube: raises, or joins the snippets (possibly none)
FetchYoutubeResults == {FetchFailure, FetchOk(<<>>), FetchOk(<<"subs">>)}

\* ContentFetcher.fetch_webpage: raises (also when nothing was extracted),
\* or returns the joined text
FetchWebpageResults == {FetchFailure, FetchOk(<<"page", " ", "text">>)}

\* ------------------------------------------------------------------ inputs
Urls ==
  { <<"https:", "/", "/", "example.com", "/", "page">>,
    <<"https:", "/", "/", "youtube.com", "/", "watch?v=", "abc", "&", "t=1">>,
    <<"https:", "/", "/", "youtube.com", "/", "watch?v=">> }

UserInputs == { <<>>, <<" ", " ">>, <<"Hello">> }

ModelArgs == {"m2", "openrouter/free", "nonexistent"}

\* contents of .env at process start
InitEnvFiles ==
  { <<>>,
    <<EnvLine("OPENROUTER_API_KEY", "k"), EnvLine("SELECTED_MODEL", "m2")>> }

\* ------------------------------------------------------- the session state
\* The controller's fields plus the ambient .env file and os.environ.
World ==
  [llm_client |-> llm_client, fetcher |-> fetcher,
   available_models |-> available_models,
   current_model |-> current_model, transcript |-> transcript,
   messages |-> messages, source_type |-> source_type,
   loaded_url |-> loaded_url, env_file |-> env_file,
   os_environ |-> os_environ]

\* ContentController.__init__(llm_client, fetcher, default_model=None)
__init__(client, content_fetcher, file, environ, default_model) ==
  LET env == load_dotenv(environ, file)
  IN [llm_client |-> client, fetcher |-> content_fetcher,
      available_models |-> <<>>,
      current_model |-> IF default_model # "" THEN default_model
                        ELSE getenv(env, "SELECTED_MODEL", ""),
      transcript |-> <<>>, messages |-> <<>>, source_type |-> "None",
      loaded_url |-> None, env_file |-> file, os_environ |-> env]

\* record of the last operation: what was called, how it ended, and the
\* calls it made on the collaborators
NoCalls(op) ==
  [op |-> op, outcome |-> "ok", arg_model |-> "", arg_text |-> <<>>,
   arg_url |-> <<>>, list_calls |-> <<>>, list_result |-> ListFailure,
   chat_calls |-> <<>>, fetch_calls |-> <<>>, ret |-> <<>>]

Result(w, l) == [w |-> w, l |-> l]


\* ------------------------------------------------------------- URL parsing
YoutubeMarkers == {"youtube.com", "youtu.be", "watch?v="}

\* a test that knows only the watch?v= form
IsYoutubeUrlWatchOnly(url) == Contains(url, "watch?v=")

\* the test of load(): any(x in url for x in ("youtube.com", "youtu.be", "watch?v="))
IsYoutubeUrl(url) == \E x \in YoutubeMarkers : Contains(url, x)

\* _parse_youtube_video_id; the except branch (None) is taken by no string,
\* the result "" is what load() rejects
_parse_youtube_video_id(url) ==
  IF Contains(url, "watch?v=") THEN SplitFirst(SplitSecond(url, "watch?v="), "&")
  ELSE IF Contains(url, "youtu.be") THEN SplitLast(RStrip(url, "/"), "/")
  ELSE SplitLast(RStrip(url, "/"), "/")

FetchResults(url) ==
  IF IsYoutubeUrl(url) THEN FetchYoutubeResults ELSE FetchWebpageResults

\* ------------------------------------------------------------- operations
\* a catalog fetch that never selects a default model
EnsureModelsNoDefault(w, lr) ==
  IF w.available_models # <<>>
  THEN [w |-> w, called |-> FALSE, raised |-> FALSE]
  ELSE IF ~lr.ok
  THEN [w |-> w, called |-> TRUE, raised |-> TRUE]
  ELSE [w |-> [w EXCEPT !.available_models = lr.models],
        called |-> TRUE, raised |-> FALSE]

\* a catalog fetch that remembers a failure as a catalog
EnsureModelsCachingFailure(w, lr) ==
  IF w.available_models # <<>>
  THEN [w |-> w, called |-> FALSE, raised |-> FALSE]
  ELSE IF ~lr.ok
  THEN [w |-> [w EXCEPT !.available_models = <<"unavailable">>],
        called |-> TRUE, raised |-> TRUE]
  ELSE [w |-> [w EXCEPT !.available_models = lr.models,
                        !.current_model =
                          IF w.current_model = "" /\ lr.models # <<>>
                          THEN lr.models[1] ELSE w.current_model],
        called |-> TRUE, raised |-> FALSE]

\* ContentController.ensure_models, lr being what list_models() does if called
ensure_models(w, lr) ==
  IF w.available_models # <<>>
  THEN [w |-> w, called |-> FALSE, raised |-> FALSE]
  ELSE IF ~lr.ok
  THEN [w |-> w, called |-> TRUE, raised |-> TRUE]
  ELSE [w |-> [w EXCEPT !.available_models = lr.models,
                        !.current_model =
                          IF w.current_model = "" /\ lr.models # <<>>
                          THEN lr.models[1] ELSE w.current_model],
        called |-> TRUE, raised |-> FALSE]

\* the part of `last` that ensure_models fills in
WithListCall(l, e, w, lr) ==
  IF e.called
  THEN [l EXCEPT !.list_calls = <<w.llm_client>>, !.list_result = lr]
  ELSE l

\* ContentController.list_models
list_models(w, lr) ==
  LET e == ensure_models(w, lr)
      l == WithListCall(NoCalls("list_models"), e, w, lr)
  IN IF e.raised
     THEN Result(e.w, [l EXCEPT !.outcome = "list_models failed"])
     ELSE Result(e.w, [l EXCEPT !.ret = e.w.available_models])

\* a set_model that selects the model for this process only
SetModelUnsaved(w, model, lr) ==
  LET e == ensure_models(w, lr)
      l == WithListCall([NoCalls("set_model") EXCEPT !.arg_model = model], e, w, lr)
  IN IF e.raised
     THEN Result(e.w, [l EXCEPT !.outcome = "list_models failed"])
     ELSE IF ~Contains(e.w.available_models, model)
     THEN Result(e.w, [l EXCEPT !.outcome = "Model not available"])
     ELSE Result([e.w EXCEPT !.current_model = model], l)

\* ContentController.set_model
set_model(w, model, lr) ==
  LET e == ensure_models(w, lr)
      l == WithListCall([NoCalls("set_model") EXCEPT !.arg_model = model], e, w, lr)
  IN IF e.raised
     THEN Result(e.w, [l EXCEPT !.outcome = "list_models failed"])
     ELSE IF ~Contains(e.w.available_models, model)
     THEN Result(e.w, [l EXCEPT !.outcome = "Model not available"])
     ELSE Result([e.w EXCEPT !.current_model = model,
                             !.env_file = _save_env_var(e.w.env_file, "SELECTED_MODEL", model)],
                 l)

SystemWebpage == Content("system: webpage", None, <<>>)

SystemYoutube == Content("system: youtube", None, <<>>)

SystemGeneric == Content("system: generic", None, <<>>)

\* the three messages that _initialize_chat_messages builds
SeedMessages(w) ==
  LET system_msg ==
        IF w.source_type = "webpage" THEN SystemWebpage
        ELSE IF w.source_type = "youtube" THEN SystemYoutube
        ELSE SystemGeneric
      user_msg ==
        IF w.source_type = "webpage"
        THEN Content("Here is the webpage content (from {loaded_url}):\n{transcript}",
                     w.loaded_url, w.transcript)
        ELSE IF w.source_type = "youtube"
        THEN Content("Here are the subtitles:\n{transcript}", None, w.transcript)
        ELSE Content("Here is the content:\n{transcript}", None, w.transcript)
      assistant_msg ==
        IF w.source_type = "webpage" THEN Content("ack: webpage", None, <<>>)
        ELSE IF w.source_type = "youtube" THEN Content("ack: youtube", None, <<>>)
        ELSE Content("ack: generic", None, <<>>)
  IN << Message("system", system_msg),
        Message("user", user_msg),
        Message("assistant", assistant_msg) >>

\* a seeding that keeps the earlier conversation in front of the new seed
InitializeAppending(w) == [w EXCEPT !.messages = w.messages \o SeedMessages(w)]

\* ContentController._initialize_chat_messages
_initialize_chat_messages(w) == [w EXCEPT !.messages = SeedMessages(w)]

FetchCall(fn, arg) == [fn |-> fn, arg |-> arg]

\* ContentController.load, fr being what the fetcher does if called
load(w, url, fr) ==
  LET w1 == [w EXCEPT !.loaded_url = Some(url)]
      l == [NoCalls("load") EXCEPT !.arg_url = url]
  IN IF IsYoutubeUrl(url)
     THEN LET video_id == _parse_youtube_video_id(url)
              lf == [l EXCEPT !.fetch_calls = <<FetchCall("fetch_youtube", video_id)>>]
          IN IF video_id = <<>>
             THEN Result(w1, [l EXCEPT !.outcome = "Could not parse YouTube video ID"])
             ELSE IF ~fr.ok
             THEN Result(w1, [lf EXCEPT !.outcome = "fetch failed"])
             ELSE Result(_initialize_chat_messages(
                           [w1 EXCEPT !.transcript = fr.text, !.source_type = "youtube"]),
                         [lf EXCEPT !.ret = fr.text])
     ELSE LET lf == [l EXCEPT !.fetch_calls = <<FetchCall("fetch_webpage", url)>>]
          IN IF ~fr.ok
             THEN Result(w1, [lf EXCEPT !.outcome = "fetch failed"])
             ELSE Result(_initialize_chat_messages(
                           [w1 EXCEPT !.transcript = fr.text, !.source_type = "webpage"]),
                         [lf EXCEPT !.ret = fr.text])

ChatCall(model, msgs) == [model |-> model, messages |-> msgs]

SummaryPrompt(text) ==
  Content("Please provide a brief summary ...<CONTENT>\n{transcript}\n</CONTENT>...", None, text)

\* a summarize that does not test whether content is loaded
SummarizeWithoutGuard(w, lr, cr) ==
  LET e == ensure_models(w, lr)
      l == WithListCall(NoCalls("summarize"), e, w, lr)
      w2 == [e.w EXCEPT !.messages =
               Append(e.w.messages, Message("user", SummaryPrompt(e.w.transcript)))]
      lc == [l EXCEPT !.chat_calls = <<ChatCall(w2.current_model, w2.messages)>>]
  IN IF e.raised
     THEN Result(e.w, [l EXCEPT !.outcome = "list_models failed"])
     ELSE IF ~cr.ok
     THEN Result(w2, [lc EXCEPT !.outcome = "chat failed"])
     ELSE Result(w2, [lc EXCEPT !.ret = cr.message.content.text])

\* a summarize that sends the bare transcript instead of the delimited prompt
SummarizeUndelimited(w, lr, cr) ==
  IF w.transcript = <<>>
  THEN Result(w, [NoCalls("summarize") EXCEPT !.outcome = "No content loaded to summarize"])
  ELSE
    LET e == ensure_models(w, lr)
        l == WithListCall(NoCalls("summarize"), e, w, lr)
        w2 == [e.w EXCEPT !.messages =
                 Append(e.w.messages, Message("user", Content("raw", None, e.w.transcript)))]
        lc == [l EXCEPT !.chat_calls = <<ChatCall(w2.current_model, w2.messages)>>]
    IN IF e.raised
       THEN Result(e.w, [l EXCEPT !.outcome = "list_models failed"])
       ELSE IF ~cr.ok
       THEN Result(w2, [lc EXCEPT !.outcome = "chat failed"])
       ELSE Result(w2, [lc EXCEPT !.ret = cr.message.content.text])

\* ContentController.summarize, cr being what chat() does if called
summarize(w, lr, cr) ==
  IF w.transcript = <<>>
  THEN Result(w, [NoCalls("summarize") EXCEPT !.outcome = "No content loaded to summarize"])
  ELSE
    LET e == ensure_models(w, lr)
        l == WithListCall(NoCalls("summarize"), e, w, lr)
        w2 == [e.w EXCEPT !.messages =
                 Append(e.w.messages, Message("user", SummaryPrompt(e.w.transcript)))]
        lc == [l EXCEPT !.chat_calls = <<ChatCall(w2.current_model, w2.messages)>>]
    IN IF e.raised
       THEN Result(e.w, [l EXCEPT !.outcome = "list_models failed"])
       ELSE IF ~cr.ok
       THEN Result(w2, [lc EXCEPT !.outcome = "chat failed"])
       ELSE Result(w2, [lc EXCEPT !.ret = cr.message.content.text])

\* an ask that returns the reply without recording it in the history
AskWithoutReply(w, user_input, lr, cr) ==
  IF Strip(user_input) = <<>>
  THEN Result(w, [NoCalls("ask") EXCEPT !.arg_text = user_input,
                                        !.outcome = "Empty user input"])
  ELSE
    LET e == ensure_models(w, lr)
        l == WithListCall([NoCalls("ask") EXCEPT !.arg_text = user_input], e, w, lr)
        w2 == [e.w EXCEPT !.messages =
                 Append(e.w.messages, Message("user", Content("raw", None, user_input)))]
        lc == [l EXCEPT !.chat_calls = <<ChatCall(w2.current_model, w2.messages)>>]
    IN IF e.raised
       THEN Result(e.w, [l EXCEPT !.outcome = "list_models failed"])
       ELSE IF ~cr.ok
       THEN Result(w2, [lc EXCEPT !.outcome = "chat failed"])
       ELSE Result(w2, [lc EXCEPT !.ret = cr.message.content.text])

\* ContentController.ask
ask(w, user_input, lr, cr) ==
  IF Strip(user_input) = <<>>
  THEN Result(w, [NoCalls("ask") EXCEPT !.arg_text = user_input,
                                        !.outcome = "Empty user input"])
  ELSE
    LET e == ensure_models(w, lr)
        l == WithListCall([NoCalls("ask") EXCEPT !.arg_text = user_input], e, w, lr)
        w2 == [e.w EXCEPT !.messages =
                 Append(e.w.messages, Message("user", Content("raw", None, user_input)))]
        lc == [l EXCEPT !.chat_calls = <<ChatCall(w2.current_model, w2.messages)>>]
    IN IF e.raised
       THEN Result(e.w, [l EXCEPT !.outcome = "list_models failed"])
       ELSE IF ~cr.ok
       THEN Result(w2, [lc EXCEPT !.outcome = "chat failed"])
       ELSE Result([w2 EXCEPT !.messages = Append(w2.messages, cr.message)],
                   [lc EXCEPT !.ret = cr.message.content.text])

\* a clear_history that also forgets where the content came from
ClearHistoryForgettingSource(w) ==
  IF w.transcript # <<>>
  THEN Result(_initialize_chat_messages([w EXCEPT !.loaded_url = None]),
              NoCalls("clear_history"))
  ELSE Result([w EXCEPT !.messages = <<>>, !.loaded_url = None],
              NoCalls("clear_history"))

\* a clear_history that puts a new seed after the messages it finds
ClearHistoryAppending(w) ==
  IF w.transcript # <<>>
  THEN Result([w EXCEPT !.messages = w.messages \o SeedMessages(w)],
              NoCalls("clear_history"))
  ELSE Result([w EXCEPT !.messages = <<>>], NoCalls("clear_history"))

\* a clear_history that empties the history also when content is loaded
ClearHistoryAlwaysEmpty(w) ==
  Result([w EXCEPT !.messages = <<>>], NoCalls("clear_history"))

\* ContentController.clear_history
clear_history(w) ==
  IF w.transcript # <<>>
  THEN Result(_initialize_chat_messages(w), NoCalls("clear_history"))
  ELSE Result([w EXCEPT !.messages = <<>>], NoCalls("clear_history"))

\* a reset that keeps the cached catalog
ResetKeepingCatalog(w) ==
  Result([__init__(w.llm_client, w.fetcher, w.env_file, w.os_environ, "")
            EXCEPT !.available_models = w.available_models],
         NoCalls("reset"))

\* ContentController.reset: __init__ run again with the same collaborators
reset(w) ==
  Result(__init__(w.llm_client, w.fetcher, w.env_file, w.os_environ, ""),
         NoCalls("reset"))

\* a swap that starts the conversation afresh
SwapClientDroppingHistory(w, new_client) ==
  [w EXCEPT !.llm_client = new_client, !.available_models = <<>>, !.messages = <<>>]

\* a swap that keeps the catalog cached from the previous backend
SwapClientKeepingCatalog(w, new_client) == [w EXCEPT !.llm_client = new_client]

\* swap_llm_client, first two statements: the new client, the catalog reset
SwapClient(w, new_client) ==
  [w EXCEPT !.llm_client = new_client, !.available_models = <<>>]

\* a discovery that selects the first model without persisting it
SwapDiscoveredUnsaved(w, models) ==
  IF models # <<>>
  THEN [w EXCEPT !.available_models = models, !.current_model = models[1]]
  ELSE [w EXCEPT !.available_models = models]

\* a discovery that caches the catalog without selecting a model
SwapDiscoveredWithoutSelecting(w, models) ==
  [w EXCEPT !.available_models = models]

\* swap_llm_client, the try block when list_models() returned
SwapDiscovered(w, models) ==
  IF models # <<>>
  THEN [w EXCEPT !.available_models = models,
                 !.current_model = models[1],
                 !.env_file = _save_env_var(w.env_file, "SELECTED_MODEL", models[1])]
  ELSE [w EXCEPT !.available_models = models]

\* a discovery failure that leaves the previous backend's model selected
SwapDiscoveryFailedStale(w) == w

\* swap_llm_client, the except block
SwapDiscoveryFailed(w) == [w EXCEPT !.current_model = ""]

\* ContentController.swap_llm_client, lr being what new_client.list_models() does
swap_llm_client(w, new_client, lr) ==
  LET w1 == SwapClient(w, new_client)
      l == [NoCalls("swap_llm_client") EXCEPT !.list_calls = <<new_client>>,
                                              !.list_result = lr]
  IN IF ~lr.ok
     THEN Result(SwapDiscoveryFailed(w1), l)
     ELSE Result(SwapDiscovered(w1, lr.models), l)

\* ---------------------------------------------------------- state machine
\* what the command loop has read and done with it; nothing before the
\* first line
NoLine == [line |-> <<>>, handler |-> "", arg |-> <<>>, calls |-> <<>>]

\* main() builds the controller on a .env file that is missing (exists
\* FALSE, no lines) or has the lines of file
Construct(client, content_fetcher, exists, file, home) ==
  LET w == __init__(client, content_fetcher, file, EmptyEnviron, "")
  IN /\ llm_client = w.llm_client
     /\ fetcher = w.fetcher
     /\ available_models = w.available_models
     /\ current_model = w.current_model
     /\ transcript = w.transcript
     /\ messages = w.messages
     /\ source_type = w.source_type
     /\ loaded_url = w.loaded_url
     /\ env_file = w.env_file
     /\ os_environ = w.os_environ
     /\ last = NoCalls("start")
     /\ loaded_seed = <<>>
     /\ dotenv_exists = exists
     /\ home_env_file = home
     /\ lastcmd = <<>>
     /\ stop = FALSE
     /\ cli = NoLine

\* the state after main() has built the controller
Init ==
  \E client \in Backends, content_fetcher \in Fetchers, file \in InitEnvFiles :
    Construct(client, content_fetcher, file # <<>>, file, <<>>)

\* the history as the most recent successful load left it (none after reset)
SeedAfter(r) ==
  IF r.l.op = "load" /\ r.l.outcome = "ok" THEN r.w.messages
  ELSE IF r.l.op = "reset" THEN <<>>
  ELSE loaded_seed

\* a controller operation has run: its effect on the controller and on the
\* .env file, and the record of it
Apply(r) ==
  /\ llm_client' = r.w.llm_client
  /\ fetcher' = r.w.fetcher
  /\ available_models' = r.w.available_models
  /\ current_model' = r.w.current_model
  /\ transcript' = r.w.transcript
  /\ messages' = r.w.messages
  /\ source_type' = r.w.source_type
  /\ loaded_url' = r.w.loaded_url
  /\ env_file' = r.w.env_file
  /\ os_environ' = r.w.os_environ
  /\ last' = r.l
  /\ loaded_seed' = SeedAfter(r)
  /\ dotenv_exists' = (dotenv_exists \/ r.w.env_file # env_file)
  /\ home_env_file' = home_env_file

\* an operation called on the controller directly
Commit(r) == Apply(r) /\ UNCHANGED <<lastcmd, stop, cli>>

\* what the backend can answer to the list_models() call of ensure_models;
\* with a cached catalog the call is not made and one choice stands for all
ListChoices ==
  IF available_models = <<>> THEN ListResults(llm_client) ELSE {ListFailure}

\* what the backend can answer to the chat() call; after a failed
\* list_models() the call is not made and one choice stands for all
ChatChoices(lr) ==
  IF available_models = <<>> /\ ~lr.ok THEN {ChatFailure} ELSE ChatResults

ListModels ==
  \E lr \in ListChoices : Commit(list_models(World, lr))

SetModel ==
  \E model \in ModelArgs, lr \in ListChoices :
    Commit(set_model(World, model, lr))

Load ==
  \E url \in Urls : \E fr \in FetchResults(url) : Commit(load(World, url, fr))

Summarize ==
  /\ Len(messages) < MaxMessages
  /\ \E lr \in ListChoices : \E cr \in ChatChoices(lr) :
       Commit(summarize(World, lr, cr))

Ask ==
  /\ Len(messages) < MaxMessages
  /\ \E user_input \in UserInputs, lr \in ListChoices : \E cr \in ChatChoices(lr) :
       Commit(ask(World, user_input, lr, cr))

ClearHistory == Commit(clear_history(World))

Reset == Commit(reset(World))

SwapLlmClient ==
  \E new_client \in Backends : \E lr \in ListResults(new_client) :
    Commit(swap_llm_client(World, new_client, lr))

Next ==
  \/ ListModels
  \/ SetModel
  \/ Load
  \/ Summarize
  \/ Ask
  \/ ClearHistory
  \/ Reset
  \/ SwapLlmClient

Spec == Init /\ [][Next]_vars


\* ------------------------------------------------- the two .env writers
\* the keys the program writes, and values it writes for them
EnvKeys == {"SELECTED_MODEL", "SELECTED_LLM_PROVIDER"}

EnvValues(key) ==
  IF key = "SELECTED_MODEL" THEN {"m1", "m2"} ELSE {"ollama", "openrouter"}

\* ~/.youtube_subs_.env at process start
InitHomeFiles == { <<>>, <<EnvLine("SELECTED_LLM_PROVIDER", "ollama")>> }

\* llm_factory._save_env_var: the same line editing, applied to .env when it
\* exists and to ~/.youtube_subs_.env when it does not; os.environ is set
llm_factory_save_env_var(exists, file, home, environ, key, value) ==
  [env_file |-> IF exists THEN _save_env_var(file, key, value) ELSE file,
   home_env_file |-> IF exists THEN home ELSE _save_env_var(home, key, value),
   env_path |-> IF exists THEN ".env" ELSE "~/.youtube_subs_.env",
   os_environ |-> [k \in (DOMAIN environ) \cup {key} |->
                     IF k = key THEN value ELSE environ[k]]]

\* record of a write to the configuration files
SaveRecord(op, key, value, env_path) ==
  [op |-> op, outcome |-> "ok", key |-> key, value |-> value,
   env_path |-> env_path]

\* main() starts with .env missing, empty, or holding the lines of a file
EnvInit ==
  \E client \in Backends, content_fetcher \in Fetchers, exists \in BOOLEAN,
     file \in InitEnvFiles, home \in InitHomeFiles :
    /\ (~exists => file = <<>>)
    /\ Construct(client, content_fetcher, exists, file, home)

\* ContentController._save_env_var(key, value) is called
ControllerSaveEnvVar ==
  \E key \in EnvKeys : \E value \in EnvValues(key) :
    /\ env_file' = _save_env_var(env_file, key, value)
    /\ dotenv_exists' = TRUE
    /\ last' = SaveRecord("_save_env_var", key, value, ".env")
    /\ UNCHANGED <<llm_client, fetcher, available_models, current_model,
                   transcript, messages, source_type, loaded_url, os_environ,
                   loaded_seed, home_env_file, lastcmd, stop, cli>>

\* llm_factory._save_env_var(key, value) is called
FactorySaveEnvVar ==
  \E key \in EnvKeys : \E value \in EnvValues(key) :
    LET r == llm_factory_save_env_var(dotenv_exists, env_file, home_env_file,
                                      os_environ, key, value)
    IN /\ env_file' = r.env_file
       /\ home_env_file' = r.home_env_file
       /\ os_environ' = r.os_environ
       /\ dotenv_exists' = dotenv_exists
       /\ last' = SaveRecord("llm_factory._save_env_var", key, value, r.env_path)
       /\ UNCHANGED <<llm_client, fetcher, available_models, current_model,
                      transcript, messages, source_type, loaded_url,
                      loaded_seed, lastcmd, stop, cli>>

EnvNext ==
  \/ ControllerSaveEnvVar
  \/ FactorySaveEnvVar

SpecEnv == EnvInit /\ [][EnvNext]_vars

\* ------------------------------------------------------ the command loop
\* ChatCLI is a cmd.Cmd: cmdloop() reads a line, passes it through precmd
\* and onecmd, and stops when the handler returns a true value.
EXIT_COMMANDS == { <<"/", "exit">>, <<"/", "quit">>, <<"/", "bye">> }

\* the do_* methods of ChatCLI
DoNames ==
  {"help", "load", "provider", "model", "summary", "subs", "ctx", "timing",
   "hist", "clear", "reset", "cls", "exit", "bye"}

\* the tokens that consist of cmd.Cmd.identchars (letters, digits, "_")
IdentTokens == DoNames \cup {"quit", "Hello"}

\* the locators typed in the command loop
ReplUrls ==
  { <<"https:", "/", "/", "youtube.com", "/", "watch?v=", "abc", "&", "t=1">> }

\* the lines typed at the prompt
ReplLines ==
  EXIT_COMMANDS \cup
  { <<"help">>, <<"clear">>, <<"reset">>, <<"load">>, <<"/", "summary">>,
    <<"Hello">>, <<" ">>,
    <<"/", "load", " ", "https:", "/", "/", "example.com", "/", "page">> }

\* ChatCLI.precmd: one leading slash is dropped
precmd(line) == IF line # <<>> /\ line[1] = "/" THEN Tail(line) ELSE line

\* cmd.Cmd.parseline: the stripped line, its leading identifier as cmd and
\* the stripped rest as arg; cmd is None for a blank line and for "!"
parseline(line) ==
  LET s == Strip(line)
      h == IF s # <<>> /\ s[1] = "?" THEN <<"help", " ">> \o Tail(s) ELSE s
  IN IF s = <<>> THEN [cmd |-> None, arg |-> None, line |-> s]
     ELSE IF s[1] = "!" THEN [cmd |-> None, arg |-> None, line |-> s]
     ELSE IF h[1] \in IdentTokens
     THEN [cmd |-> Some(h[1]), arg |-> Strip(Tail(h)), line |-> h]
     ELSE [cmd |-> Some(""), arg |-> Strip(h), line |-> h]

\* the handler that getattr(self, "do_" + cmd) or the fallback selects
Dispatched(p, lastcmd_after) ==
  IF p.cmd = None \/ p.cmd[1] = "" \/ p.cmd[1] \notin DoNames
  THEN [handler |-> "default", arg |-> p.line, lastcmd |-> lastcmd_after]
  ELSE [handler |-> "do_" \o p.cmd[1], arg |-> p.arg, lastcmd |-> lastcmd_after]

\* cmd.Cmd.onecmd: a blank line repeats lastcmd (emptyline), any other line
\* with a cmd becomes lastcmd and goes to its do_* method or to default
onecmd(line, last_cmd) ==
  LET p == parseline(line)
  IN IF p.line = <<>>
     THEN IF last_cmd # <<>>
          THEN Dispatched(parseline(last_cmd), last_cmd)
          ELSE [handler |-> "emptyline", arg |-> <<>>, lastcmd |-> last_cmd]
     ELSE IF p.cmd = None THEN Dispatched(p, last_cmd)
     ELSE Dispatched(p, p.line)

\* do_load asks for the locator when the line gave none
TypedUrls(d) ==
  IF d.handler = "do_load" /\ d.arg = <<>> THEN ReplUrls ELSE {<<>>}

LoadUrl(d, typed) == IF d.arg # <<>> THEN d.arg ELSE typed

\* what the fetcher can do when the handler is do_load
ReplFetchChoices(d, typed) ==
  IF d.handler = "do_load" THEN FetchResults(LoadUrl(d, typed)) ELSE {FetchFailure}

\* the call a handler makes on the controller, if it makes one: do_load,
\* do_summary, do_clear, do_reset, and default for a non-blank line that
\* does not start with a slash
HandlerCall(d, w, typed, fr, lr, cr) ==
  IF d.handler = "do_load" THEN <<load(w, LoadUrl(d, typed), fr)>>
  ELSE IF d.handler = "do_summary" THEN <<summarize(w, lr, cr)>>
  ELSE IF d.handler = "do_clear" THEN <<clear_history(w)>>
  ELSE IF d.handler = "do_reset" THEN <<reset(w)>>
  ELSE IF d.handler = "default" /\ Strip(d.arg) # <<>> /\ d.arg[1] # "/"
  THEN <<ask(w, d.arg, lr, cr)>>
  ELSE <<>>

\* the handlers that return True
StopHandlers == {"do_exit", "do_bye"}

\* one round of cmdloop(): a line is read and handled; exceptions of the
\* controller are caught and rendered by the handler
ReadLine ==
  /\ ~stop
  /\ \E line \in ReplLines :
       LET d == onecmd(precmd(line), lastcmd)
       IN \E typed \in TypedUrls(d) : \E fr \in ReplFetchChoices(d, typed) :
          \E lr \in ListChoices : \E cr \in ChatChoices(lr) :
            LET c == HandlerCall(d, World, typed, fr, lr, cr)
            IN /\ (c # <<>> /\ c[1].l.op \in {"ask", "summarize"}) =>
                    Len(messages) < MaxMessages
               /\ IF c # <<>> THEN Apply(c[1])
                  ELSE UNCHANGED <<llm_client, fetcher, available_models,
                                   current_model, transcript, messages,
                                   source_type, loaded_url, env_file,
                                   os_environ, last, loaded_seed,
                                   dotenv_exists, home_env_file>>
               /\ lastcmd' = d.lastcmd
               /\ stop' = (d.handler \in StopHandlers)
               /\ cli' = [line |-> line, handler |-> d.handler, arg |-> d.arg,
                          calls |-> IF c # <<>> THEN <<c[1].l.op>> ELSE <<>>]

ReplNext == ReadLine

SpecRepl == Init /\ [][ReplNext]_vars

\* ------------------------------------------------- load over more locators
\* locators of every shape that load() and _parse_youtube_video_id tell apart
LoadUrls ==
  Urls \cup
  { <<"https:", "/", "/", "youtu.be", "/", "xyz">>,
    <<"https:", "/", "/", "youtu.be", "/", "xyz", "/">>,
    <<"https:", "/", "/", "youtube.com", "/">>,
    <<"https:", "/", "/", "example.com", "/", "watch?v=", "q">>,
    <<"example.com">> }

LoadAny ==
  \E url \in LoadUrls : \E fr \in FetchResults(url) : Commit(load(World, url, fr))

LoadNext ==
  \/ LoadAny
  \/ ClearHistory
  \/ Reset

SpecLoad == Init /\ [][LoadNext]_vars

\* ------------------------------------------------------------------ claims
\* the six session fields that an operation may or may not leave alone
SessionUnchanged ==
  /\ messages' = messages
  /\ current_model' = current_model
  /\ available_models' = available_models
  /\ transcript' = transcript
  /\ source_type' = source_type
  /\ loaded_url' = loaded_url

\* C1: when ask(userText) with non-blank text fails in the backend's chat
\* call, history, activeModel, availableModels, contentText, sourceKind and
\* sourceLocator are what they were before the call.
C1_AskChatFailureLeavesSession ==
  [][last'.op = "ask" /\ last'.outcome = "chat failed" => SessionUnchanged]_vars

\* C2: a failed load (unparseable locator or failed fetch) leaves
\* sourceLocator, contentText, sourceKind and history as they were: load
\* changes the three content fields together or not at all.
C2_LoadFailureLeavesContent ==
  [][last'.op = "load" /\ last'.outcome # "ok" =>
       /\ loaded_url' = loaded_url
       /\ transcript' = transcript
       /\ source_type' = source_type
       /\ messages' = messages]_vars

\* C3: setModel(name) with a name outside the catalog fails with the
\* invalid-model error and leaves activeModel as it was before the call,
\* also on a fresh session.
C3_SetModelInvalidLeavesModel ==
  [][last'.op = "set_model" /\ last'.outcome = "Model not available" =>
       current_model' = current_model]_vars

\* the state right after construction, before any operation
FreshSession == last.op = "start"

ModelOps == {"list_models", "set_model", "ask", "summarize"}

\* listModels() on a fresh session was answered with a non-empty catalog
FreshListModelsStep ==
  /\ FreshSession
  /\ last'.op = "list_models"
  /\ last'.outcome = "ok"
  /\ last'.list_result.models # <<>>

\* while a non-empty catalog is cached, no operation of ModelOps calls the
\* backend's list_models
CatalogIsCached ==
  (available_models # <<>> /\ last'.op \in ModelOps) => last'.list_calls = <<>>

\* C4 as stated: on every fresh session, listModels() with a non-empty
\* catalog sets activeModel to the catalog's first element and caches it.
C4_FreshListModelsSelectsFirst ==
  [][/\ (FreshListModelsStep =>
           /\ available_models' = last'.list_result.models
           /\ current_model' = last'.list_result.models[1])
     /\ CatalogIsCached]_vars

\* C4 amended: on a fresh session listModels() with a non-empty catalog
\* caches the catalog, sets activeModel to its first element when activeModel
\* was unset, and keeps a model taken from the persisted SELECTED_MODEL;
\* while the catalog is cached no later listModels, setModel, ask or
\* summarize calls the backend's list_models.
C4_FreshListModelsDefaultsUnset ==
  [][/\ (FreshListModelsStep =>
           /\ last'.list_calls = <<llm_client>>
           /\ available_models' = last'.list_result.models
           /\ current_model' = IF current_model = ""
                               THEN last'.list_result.models[1]
                               ELSE current_model)
     /\ CatalogIsCached]_vars

C4_Witness ==
  /\ last.op = "list_models"
  /\ last.list_calls # <<>>
  /\ messages = <<>>
  /\ available_models # <<>>
  /\ current_model = available_models[1]
  /\ env_file = <<>>

\* C5: swapBackend leaves history, contentText, sourceKind and sourceLocator
\* as they were, whether the new backend's discovery succeeds or fails.
C5_SwapPreservesHistory ==
  [][last'.op = "swap_llm_client" =>
       /\ messages' = messages
       /\ transcript' = transcript
       /\ source_type' = source_type
       /\ loaded_url' = loaded_url]_vars

C5_Witness ==
  /\ last.op = "swap_llm_client"
  /\ ~last.list_result.ok
  /\ Len(messages) > 3
  /\ transcript # <<>>

\* C6 as stated: the listModels() that follows a swapBackend queries the new
\* backend's list_models.
C6_ListAfterSwapQueriesBackend ==
  [][last.op = "swap_llm_client" /\ last'.op = "list_models" =>
       last'.list_calls = <<llm_client>>]_vars

\* C6 amended: swapBackend drops the previous backend's catalog and itself
\* queries the new backend's list_models once; the listModels() that follows
\* answers from the catalog fetched by the swap when that catalog is
\* non-empty, and queries the new backend again when the discovery failed or
\* returned nothing.
C6_ListAfterSwapUsesNewCatalog ==
  [][/\ (last.op = "swap_llm_client" =>
           /\ last.list_calls = <<llm_client>>
           /\ available_models = IF last.list_result.ok
                                 THEN last.list_result.models ELSE <<>>)
     /\ (last.op = "swap_llm_client" /\ last'.op = "list_models" =>
           IF available_models # <<>>
           THEN last'.list_calls = <<>> /\ last'.ret = last.list_result.models
           ELSE last'.list_calls = <<llm_client>>)]_vars

C6_Witness ==
  /\ last.op = "swap_llm_client"
  /\ last.list_result.ok
  /\ available_models # <<>>

\* C7: when the new backend's discovery fails during swapBackend the call
\* returns normally, activeModel is empty and the cached catalog is empty.
C7_SwapDiscoveryFailureClearsModel ==
  last.op = "swap_llm_client" /\ ~last.list_result.ok =>
    /\ last.outcome = "ok"
    /\ current_model = ""
    /\ available_models = <<>>

C7_Witness ==
  /\ last.op = "swap_llm_client"
  /\ ~last.list_result.ok
  /\ "SELECTED_MODEL" \in DotenvKeys(env_file)

\* C8: when the new backend's discovery succeeds (with a catalog that has a
\* first entry), swapBackend sets activeModel to that entry and the .env file
\* holds it as SELECTED_MODEL.
C8_SwapSelectsAndPersistsFirst ==
  (last.op = "swap_llm_client" /\ last.list_result.ok /\ last.list_result.models # <<>>) =>
      /\ current_model = last.list_result.models[1]
      /\ "SELECTED_MODEL" \in DotenvKeys(env_file)
      /\ DotenvValue(env_file, "SELECTED_MODEL") = last.list_result.models[1]

C8_Witness ==
  /\ last.op = "swap_llm_client"
  /\ last.list_result.ok
  /\ current_model = "openrouter/free"
  /\ Len(env_file) = 2

\* C9: whenever the catalog has been fetched, a non-empty activeModel is one
\* of availableModels.
C9_ActiveModelInCatalog ==
  available_models # <<>> /\ current_model # "" =>
    Contains(available_models, current_model)

\* C10: after a successful load the history is exactly the seed: System,
\* User, Assistant, built from the new sourceKind, locator and contentText.
C10_LoadRebuildsHistory ==
  last.op = "load" /\ last.outcome = "ok" =>
    /\ Len(messages) = 3
    /\ <<messages[1].role, messages[2].role, messages[3].role>>
         = <<"system", "user", "assistant">>
    /\ loaded_url = Some(last.arg_url)
    /\ transcript = last.ret
    /\ source_type = IF IsYoutubeUrl(last.arg_url) THEN "youtube" ELSE "webpage"
    /\ messages[1].content =
         IF source_type = "youtube" THEN SystemYoutube ELSE SystemWebpage
    /\ messages[2].content.text = last.ret
    /\ messages[2].content.url =
         IF source_type = "webpage" THEN Some(last.arg_url) ELSE None
    /\ messages[3].content.tmpl =
         IF source_type = "youtube" THEN "ack: youtube" ELSE "ack: webpage"

C10_Witness ==
  /\ last.op = "load"
  /\ last.outcome = "ok"
  /\ source_type = "webpage"
  /\ Len(messages) = 3

\* C11: whenever contentText is non-empty, history is non-empty and starts
\* with the System message of the seed for the current sourceKind.
C11_LoadedHistoryStartsWithSystem ==
  transcript # <<>> =>
    /\ messages # <<>>
    /\ source_type \in {"webpage", "youtube"}
    /\ messages[1] = SeedMessages(World)[1]
    /\ messages[1] = Message("system", IF source_type = "webpage"
                                       THEN SystemWebpage ELSE SystemYoutube)

C11_Witness ==
  /\ transcript # <<>>
  /\ last.op = "load"
  /\ last.outcome = "fetch failed"
  /\ Len(messages) > 3
  /\ source_type = "webpage"

\* the Assistant messages that a backend's chat can return
ChatReplies == {cr.message : cr \in {c \in ChatResults : c.ok}}

\* C12: a successful ask(userText) appends exactly a User message holding
\* userText and then the backend's Assistant message, keeps the earlier
\* messages as they were, and returns the content of that Assistant message.
C12_AskAppendsUserAndReply ==
  [][last'.op = "ask" /\ last'.outcome = "ok" =>
       /\ Len(messages') = Len(messages) + 2
       /\ SubSeq(messages', 1, Len(messages)) = messages
       /\ messages'[Len(messages) + 1]
            = Message("user", Content("raw", None, last'.arg_text))
       /\ messages'[Len(messages) + 2] \in ChatReplies
       /\ messages'[Len(messages) + 2].role = "assistant"
       /\ last'.ret = messages'[Len(messages) + 2].content.text]_vars

C12_Witness ==
  /\ last.op = "ask"
  /\ last.outcome = "ok"
  /\ Len(messages) = 5
  /\ messages[4] = Message("user", Content("raw", None, <<"Hello">>))
  /\ last.ret = <<"reply">>

\* C13: ask(userText) with empty or whitespace-only text fails with the
\* empty-input error, calls neither list_models nor chat, and leaves history,
\* activeModel and the catalog as they were.
C13_BlankAskRejected ==
  [][last'.op = "ask" /\ (\A i \in 1..Len(last'.arg_text) : last'.arg_text[i] = " ") =>
       /\ last'.outcome = "Empty user input"
       /\ last'.list_calls = <<>>
       /\ last'.chat_calls = <<>>
       /\ messages' = messages
       /\ current_model' = current_model
       /\ available_models' = available_models]_vars

C13_Witness ==
  /\ last.op = "ask"
  /\ last.arg_text = <<" ", " ">>
  /\ last.outcome = "Empty user input"
  /\ available_models = <<>>

\* nothing of the session, its collaborators or the .env file changes
WholeStateUnchanged ==
  /\ SessionUnchanged
  /\ llm_client' = llm_client
  /\ fetcher' = fetcher
  /\ env_file' = env_file
  /\ os_environ' = os_environ

\* C14: summarize() while contentText is empty fails with the no-content
\* error, calls neither list_models nor chat, and changes nothing.
C14_SummarizeWithoutContentRejected ==
  [][last'.op = "summarize" /\ transcript = <<>> =>
       /\ last'.outcome = "No content loaded to summarize"
       /\ last'.list_calls = <<>>
       /\ last'.chat_calls = <<>>
       /\ WholeStateUnchanged]_vars

C14_Witness ==
  /\ last.op = "summarize"
  /\ last.outcome = "No content loaded to summarize"
  /\ loaded_url # None
  /\ source_type = "None"
  /\ available_models = <<>>

\* C15: summarize() with content loaded appends one User message that wraps
\* contentText in the delimiters, calls chat once with activeModel and the
\* resulting history, and returns the content of the backend's response.
C15_SummarizeAppendsPromptAndReturns ==
  [][/\ (last'.op = "summarize" /\ transcript # <<>> => Len(last'.chat_calls) <= 1)
     /\ (last'.op = "summarize" /\ last'.outcome = "ok" =>
           /\ transcript # <<>>
           /\ messages' = Append(messages, Message("user", SummaryPrompt(transcript)))
           /\ last'.chat_calls = <<ChatCall(current_model', messages')>>
           /\ last'.ret \in {m.content.text : m \in ChatReplies})]_vars

C15_Witness ==
  /\ last.op = "summarize"
  /\ last.outcome = "ok"
  /\ Len(messages) = 4
  /\ messages[4].content = SummaryPrompt(<<"page", " ", "text">>)
  /\ last.ret = <<"reply">>

\* C16: when chat fails during summarize(), history is what it was before
\* the call: the summary prompt is not left in it.
C16_SummarizeChatFailureLeavesHistory ==
  [][last'.op = "summarize" /\ last'.outcome = "chat failed" =>
       messages' = messages]_vars

\* C17: with content loaded, clearHistory() leaves the three-message seed,
\* and a clearHistory() that follows another leaves the same history.
C17_ClearHistoryIdempotent ==
  [][last'.op = "clear_history" /\ transcript # <<>> =>
       /\ Len(messages') = 3
       /\ messages' = SeedMessages(World)
       /\ transcript' = transcript
       /\ source_type' = source_type
       /\ loaded_url' = loaded_url
       /\ (last.op = "clear_history" => messages' = messages)]_vars

C17_Witness ==
  /\ last.op = "clear_history"
  /\ transcript # <<>>
  /\ Len(messages) = 3
  /\ messages = SeedMessages(World)

\* C18: with content loaded, clearHistory() makes history equal to the
\* history as it was right after the most recent successful load.
C18_ClearHistoryRestoresLoadedSeed ==
  [][last'.op = "clear_history" /\ transcript # <<>> =>
       messages' = loaded_seed]_vars

\* C19: reset() leaves contentText empty, sourceKind None, sourceLocator
\* unset, history empty and the catalog empty, and keeps the backend and the
\* content source it had.
C19_ResetClearsDataKeepsCollaborators ==
  [][last'.op = "reset" =>
       /\ transcript' = <<>>
       /\ source_type' = "None"
       /\ loaded_url' = None
       /\ messages' = <<>>
       /\ available_models' = <<>>
       /\ llm_client' = llm_client
       /\ fetcher' = fetcher]_vars

C19_Witness ==
  /\ last.op = "reset"
  /\ llm_client = "openrouter"
  /\ messages = <<>>
  /\ env_file = <<EnvLine("SELECTED_MODEL", "openrouter/free")>>

\* the operation of this step gets as far as ensure_models
ReachesEnsureModels ==
  \/ last'.op \in {"list_models", "set_model"}
  \/ last'.op = "ask" /\ last'.outcome # "Empty user input"
  \/ last'.op = "summarize" /\ last'.outcome # "No content loaded to summarize"

\* C20: a list_models failure during listModels() is raised and not cached:
\* the catalog stays empty, activeModel is unchanged, and the next operation
\* that needs the catalog calls the backend's list_models again.
C20_ListFailureNotCached ==
  [][/\ (last'.op = "list_models" /\ last'.outcome = "list_models failed" =>
           /\ last'.list_calls = <<llm_client>>
           /\ available_models = <<>>
           /\ available_models' = <<>>
           /\ WholeStateUnchanged)
     /\ (last.op = "list_models" /\ last.outcome = "list_models failed"
           /\ ReachesEnsureModels =>
           last'.list_calls = <<llm_client>>)]_vars

C20_Witness ==
  /\ last.op = "list_models"
  /\ last.outcome = "list_models failed"
  /\ current_model = "m2"
  /\ available_models = <<>>

\* C21: setModel(name) with a name present in the catalog sets activeModel to
\* name, leaves the .env file with the line SELECTED_MODEL=name as its only
\* SELECTED_MODEL line, and leaves history, contentText, sourceKind and
\* sourceLocator unchanged.
C21_SetModelSelectsAndPersists ==
  [][last'.op = "set_model" /\ last'.outcome = "ok" =>
       /\ Contains(available_models', last'.arg_model)
       /\ current_model' = last'.arg_model
       /\ \E i \in 1..Len(env_file') :
            /\ env_file'[i] = EnvLine("SELECTED_MODEL", last'.arg_model)
            /\ \A j \in 1..Len(env_file') :
                 env_file'[j].key = "SELECTED_MODEL" => j = i
       /\ messages' = messages
       /\ transcript' = transcript
       /\ source_type' = source_type
       /\ loaded_url' = loaded_url]_vars

C21_Witness ==
  /\ last.op = "set_model"
  /\ last.outcome = "ok"
  /\ last.arg_model = "m2"
  /\ current_model = "m2"
  /\ env_file = <<EnvLine("SELECTED_MODEL", "m2")>>
  /\ Len(messages) > 3

\* the operations other than load and reset
NonLoadOps ==
  {"ask", "summarize", "clear_history", "list_models", "set_model",
   "swap_llm_client"}

\* C22: ask, summarize, clearHistory, listModels, setModel and swapBackend,
\* whether they succeed or fail, never change contentText, sourceKind or
\* sourceLocator.
C22_OnlyLoadChangesContent ==
  [][last'.op \in NonLoadOps =>
       /\ transcript' = transcript
       /\ source_type' = source_type
       /\ loaded_url' = loaded_url]_vars

C22_Witness ==
  /\ last.op = "clear_history"
  /\ transcript # <<>>
  /\ source_type = "youtube"
  /\ loaded_url # None

SaveOps == {"_save_env_var", "llm_factory._save_env_var"}

\* C23: a write of a key leaves every line of another key unchanged and in
\* place, replaces the value of the key if it is present and appends the key
\* otherwise, and afterwards .env, the file read at startup, holds the
\* written value for the key.
C23_SavePreservesOthersAndStores ==
  [][last'.op \in SaveOps =>
       /\ \A i \in 1..Len(env_file) :
            env_file[i].key # last'.key =>
              i <= Len(env_file') /\ env_file'[i] = env_file[i]
       /\ IF last'.key \in DotenvKeys(env_file)
          THEN Len(env_file') = Len(env_file)
          ELSE env_file' = Append(env_file, EnvLine(last'.key, last'.value))
       /\ last'.key \in DotenvKeys(env_file')
       /\ DotenvValue(env_file', last'.key) = last'.value]_vars

\* C24: each of the commands /exit, /quit and /bye ends the command loop and
\* is not forwarded to the controller's ask.
C24_ExitCommandsEndLoop ==
  cli.line \in EXIT_COMMANDS => stop /\ cli.calls = <<>>

\* C25: every non-blank line that does not begin with a slash is passed to
\* the controller's ask and not dispatched to a command handler.
C25_BareLineIsAsk ==
  Strip(cli.line) # <<>> /\ cli.line[1] # "/" =>
    /\ cli.handler = "default"
    /\ cli.calls = <<"ask">>
    /\ last.op = "ask"
    /\ last.arg_text = Strip(cli.line)

\* the locator contains one of the YouTube URL shapes
HasYoutubeShape(url) ==
  \E i \in 1..Len(url) : url[i] \in {"youtube.com", "youtu.be", "watch?v="}

\* C26: a load calls the content source at most once: fetch_youtube with the
\* extracted identifier when the locator has a YouTube shape, fetch_webpage
\* with the locator otherwise; after a successful load source_type is
\* "youtube" exactly when fetch_youtube was the one called and "webpage"
\* exactly when fetch_webpage was.
C26_LoadCallsOneFetcher ==
  [][last'.op = "load" =>
       LET url == last'.arg_url
           calls == last'.fetch_calls
       IN /\ Len(calls) <= 1
          /\ (calls # <<>> =>
                calls[1] = IF HasYoutubeShape(url)
                           THEN FetchCall("fetch_youtube", _parse_youtube_video_id(url))
                           ELSE FetchCall("fetch_webpage", url))
          /\ (~HasYoutubeShape(url) => Len(calls) = 1)
          /\ (last'.outcome = "ok" =>
                /\ Len(calls) = 1
                /\ (source_type' = "youtube" <=> calls[1].fn = "fetch_youtube")
                /\ (source_type' = "webpage" <=> calls[1].fn = "fetch_webpage"))]_vars

C26_Witness ==
  /\ last.op = "load"
  /\ last.outcome = "ok"
  /\ last.arg_url = <<"https:", "/", "/", "youtu.be", "/", "xyz", "/">>
  /\ last.fetch_calls = <<FetchCall("fetch_youtube", <<"xyz">>)>>
  /\ source_type = "youtube"

\* where the conversation part of the history starts: after the seed when
\* there is one
ConversationStart ==
  IF messages # <<>> /\ messages[1].role = "system" THEN 4 ELSE 1

\* C27: in the conversation part of the history every User message that is
\* not the last message is immediately followed by an Assistant message.
C27_NoAdjacentUserMessages ==
  \A i \in ConversationStart..(Len(messages) - 1) :
    messages[i].role = "user" => messages[i + 1].role = "assistant"

\* C28: when the list_models call an ask or summarize makes, if it makes
\* one, returns a non-empty catalog, the chat call is made with a non-empty
\* model identifier.
C28_ChatModelNeverEmpty ==
  [][/\ last'.op \in {"ask", "summarize"}
     /\ last'.chat_calls # <<>>
     /\ (last'.list_calls # <<>> => last'.list_result.models # <<>>)
     => /\ last'.chat_calls[1].model # ""
        /\ last'.chat_calls[1].model = current_model']_vars

C28_Witness ==
  /\ last.op = "summarize"
  /\ last.outcome = "ok"
  /\ last.list_calls # <<>>
  /\ last.chat_calls[1].model = "m1"
  /\ "SELECTED_MODEL" \in DotenvKeys(env_file)
  /\ DotenvValue(env_file, "SELECTED_MODEL") = "m2"

====
